---- MODULE Spec2Model ----
(***************************************************************************)
(* Concurrency and lifecycle core of kos-zbot:                             *)
(*   - imu.py : the Sampler process (_sensor_proc), the size-1             *)
(*              multiprocessing.Queue, the Aggregator thread               *)
(*              (BNO055Manager._reader_loop), the State Buffer and the     *)
(*              start()/stop() lifecycle;                                  *)
(*   - kos.py : ActuatorService's temporal_lock gateway and the            *)
(*              singleton_check pidfile guard.                             *)
(* Each subsystem has its own specification over the shared variables.     *)
(***************************************************************************)
EXTENDS Integers, Sequences, FiniteSets, TLC

\* ------------------------------------------------------------------ bounds
\* Sampler processes / Aggregator threads one manager creates.
MaxSpawn == 2
\* Sensor reads attempted by the Sampler(s).
MaxSamples == 3
\* Samples the environment hands to the Aggregator in SpecMerge.
MaxDeliver == 2
\* SpecSched: ticks per sampling period, the clock's horizon, and the longest
\* stall of one tick, in periods.
Period == 3
MaxTime == 20
MaxStall == 3
\* SpecGateway: RPC calls that arrive at one ActuatorService.
NumCalls == 3
\* SpecGuard: kos processes started on the same pidfile.
NumInst == 3
\* SpecRpc: actuator ids the controller may have registered, and the longest
\* id list or command list of one request.
NumIds == 2
MaxReq == 3

VARIABLES
    \* ---- imu.py: BNO055Manager and its two executors
    imuPc,        \* position of the (single) caller of start()/stop()
    process,      \* self._process: 0 is None, else the Sampler's id
    procAlive,    \* ids of the Sampler processes that are alive
    readerThread, \* self._reader_thread: 0 is None, else the thread's id
    thrAlive,     \* ids of the Aggregator threads that are alive
    stopReader,   \* self._stop_reader (threading.Event)
    spawned,      \* <<processes created, threads created>>
    smPc,         \* smPc[p]: position of Sampler p in _sensor_proc
    smData,       \* smData[p]: the `data` local of Sampler p
    qSem,         \* free slots of self._queue (maxsize semaphore)
    qFeed,        \* qFeed[p]: items put by p, still in p's feeder buffer
    qPipe,        \* items in the queue's pipe, readable by get()
    rdPc,         \* rdPc[t]: position of Aggregator t in _reader_loop
    buffer,       \* self._buffer
    prodSeq,      \* ghost: number of sensor reads so far (production order)
    rdLast,       \* ghost: production number of the last sample the
                  \* Aggregator unpacked and merged
    rdPrev,       \* ghost: production number of the one before that
    imuHist,      \* ghost: the last call made (last), consecutive stop()
                  \* calls (stops, capped at 2), whether start() was ever
                  \* called, whether both executors were alive at the last
                  \* start(), whether a call raised
    smTicks,      \* ghost: smTicks[p]: times Sampler p advanced next_deadline
    bufLock,      \* self._lock: 0 is free, else its holder
    rdErr,        \* ghost: exceptions the Aggregator has logged (line 148)
    rdItem,       \* the sample get() returned, until it is merged
    clPc,         \* position of a thread reading the State Buffer
    clSnap        \* what that thread has read so far

imuVars == <<imuPc, process, procAlive, readerThread, thrAlive, stopReader,
             spawned, smPc, smData, qSem, qFeed, qPipe, rdPc, buffer,
             prodSeq, rdLast, rdPrev, imuHist, smTicks, bufLock, rdErr,
             rdItem, clPc, clSnap>>

\* ---- imu.py: the deadline schedule of _sensor_proc, with time
VARIABLES
    schPc,        \* position in the loop: "init", "top", "work", "sleep"
    schClock,     \* time.monotonic(), in ticks
    schDeadline,  \* next_deadline
    schOverrun,   \* now - next_deadline of the current tick (0: no overrun)
    schWork,      \* ghost: time the current tick spent between lines 36 and 66
    schStalls,    \* ghost: ticks so far whose work took a period or more
    schNoSleep    \* ghost: ticks in a row that ended without sleeping

schedVars == <<schPc, schClock, schDeadline, schOverrun, schWork, schStalls,
               schNoSleep>>

\* ---- kos.py: ActuatorService (one instance) and its in-flight RPC calls
VARIABLES
    gwCall,       \* gwCall[c]: one ConfigureActuator / CommandActuators call
    lockLocked,   \* self.temporal_lock._locked
    lockWaiters,  \* self.temporal_lock._waiters, in arrival order
    inCtrl        \* ghost: calls inside configure_actuator / set_positions

gwVars == <<gwCall, lockLocked, lockWaiters, inCtrl>>

\* ---- kos.py: singleton_check, the pidfile and the processes running it
VARIABLES
    inst,         \* inst[p]: one kos process and its place in singleton_check
    pidfile,      \* the inode the path /tmp/kos.pid names (0: no such file)
    files,        \* files[i]: content and lockf holder of inode i
    nfiles        \* inodes created so far

sgVars == <<inst, pidfile, files, nfiles>>

\* ---- kos.py: one GetActuatorsState / ParameterDump / CommandActuators call
\* at a time, against a controller with a given registration
VARIABLES
    actuator_ids, \* self.actuator_controller.actuator_ids
    ctl,          \* ctl[id]: condition of registered actuator id
    rpcPc,        \* "idle", or "done" with the response not yet taken
    rpcReq,       \* the request of the current call
    rpcResp,      \* its response
    setCalls      \* ghost: the maps set_positions was called with, in order,
                  \* and how each call ended

rpcVars == <<actuator_ids, ctl, rpcPc, rpcReq, rpcResp, setCalls>>

vars == <<imuVars, schedVars, gwVars, sgVars, rpcVars>>

NotImu == <<schedVars, gwVars, sgVars, rpcVars>>
NotSched == <<imuVars, gwVars, sgVars, rpcVars>>
NotGw == <<imuVars, schedVars, sgVars, rpcVars>>
NotSg == <<imuVars, schedVars, gwVars, rpcVars>>
NotRpc == <<imuVars, schedVars, gwVars, sgVars>>


\* ------------------------------------------------------------ imu.py: data
\* Python's None, as an element of a field tuple.
None == -1

\* A field of a sample: None, a tuple of elements, or a non-iterable scalar.
NoneField == [kind |-> "None", v |-> <<>>]
Tuple(s) == [kind |-> "tuple", v |-> s]
Scalar(x) == [kind |-> "scalar", v |-> <<x>>]

SlotNames == <<"accel", "gyro", "mag", "quat", "calib">>
\* Arity of each field: acceleration, gyro, magnetic (3), quaternion,
\* calibration_status (4).
FieldLen == <<3, 3, 3, 4, 4>>

\* self._buffer as __init__ builds it.
BufferDefault ==
    [accel |-> <<0, 0, 0>>, gyro |-> <<0, 0, 0>>, mag |-> <<0, 0, 0>>,
     quat |-> <<0, 0, 0, 0>>, calib |-> <<0, 0, 0, 0>>]

\* The i-th field of read number n: fully valid, with one None element, None.
ValidField(n, i) == Tuple([k \in 1..FieldLen[i] |-> n])
PartialField(n, i) == Tuple([k \in 1..FieldLen[i] |-> IF k = 2 THEN None ELSE n])
FieldOfKind(kd, n, i) ==
    IF kd = "valid" THEN ValidField(n, i)
    ELSE IF kd = "partial" THEN PartialField(n, i)
    ELSE NoneField

Ids == 1..MaxSpawn

\* What a thread reading the buffer holds before its first getter call: for
\* each slot whether it was read, the value read and, as a ghost, the whole
\* buffer at the moment of the read.
NoSnap == [i \in 1..5 |-> [read |-> FALSE, v |-> <<>>, at |-> BufferDefault]]
NoData == [seq |-> 0, data |-> <<>>]
Item(n, d) == [seq |-> n, data |-> d]

\* What one sensor read (the five property reads of lines 39-45) may return
\* in the Sampler: every field valid, or a read with a degraded gyro tuple
\* and no quaternion.
SensorReadings(n) ==
    { [i \in 1..5 |-> ValidField(n, i)],
      [i \in 1..5 |-> IF i = 2 THEN PartialField(n, i)
                      ELSE IF i = 4 THEN NoneField
                      ELSE ValidField(n, i)] }

\* ----------------------------------------------- imu.py: _reader_loop merge
\* Mutant: only `x is not None` is tested, not the elements.
FieldOkNotNoneOnly(f) == f.kind # "None"

\* `x is not None and all(v is not None for v in x)` (lines 135-143).
FieldOk(f) == f.kind # "None" /\ \A k \in 1..Len(f.v) : f.v[k] # None

\* The five conditional assignments under self._lock, in source order; a
\* non-iterable field raises TypeError there and leaves the later slots.
RECURSIVE MergeFields(_, _, _)
MergeFields(buf, data, i) ==
    IF i > 5 THEN [buf |-> buf, exc |-> FALSE]
    ELSE IF data[i].kind = "scalar" THEN [buf |-> buf, exc |-> TRUE]
    ELSE MergeFields(IF FieldOk(data[i])
                       THEN [buf EXCEPT ![SlotNames[i]] = data[i].v]
                       ELSE buf,
                     data, i + 1)

\* The tuple unpacking of line 133 (ValueError unless five fields), then
\* the merge.
MergeSample(buf, data) ==
    IF Len(data) # 5 THEN [buf |-> buf, exc |-> TRUE]
    ELSE MergeFields(buf, data, 1)

\* ------------------------------------ imu.py: _sensor_proc's deadline loop
\* Lines 19-20: period = 1.0 / rate_hz; next_deadline = time.monotonic().
InitSched ==
    /\ schPc = "init"
    /\ schClock = 0
    /\ schDeadline = 0
    /\ schOverrun = 0
    /\ schWork = 0
    /\ schStalls = 0
    /\ schNoSleep = 0

\* Lines 23-24: opening the bus and the sensor takes some time.
SchedOpen ==
    /\ schPc = "init"
    /\ UNCHANGED NotSched
    /\ \E d \in 0..1 : schClock' = schClock + d
    /\ schPc' = "top"
    /\ UNCHANGED <<schDeadline, schOverrun, schWork, schStalls, schNoSleep>>

\* Mutant: the deadline accumulates without resynchronising to now.
NextDeadlineCatchUp(now, deadline) == deadline + Period

\* Lines 27-35: resynchronise to now on an overrun, then add one period.
NextDeadline(now, deadline) ==
    (IF now > deadline THEN now ELSE deadline) + Period

SchedTop ==
    /\ schPc = "top"
    /\ UNCHANGED NotSched
    /\ schOverrun' = IF schClock > schDeadline THEN schClock - schDeadline ELSE 0
    /\ schDeadline' = NextDeadline(schClock, schDeadline)
    /\ schPc' = "work"
    /\ UNCHANGED <<schClock, schWork, schStalls, schNoSleep>>

\* Lines 38-64: the sensor read and the push take d ticks: less than a
\* period, or a stall of up to MaxStall periods.
SchedWork ==
    /\ schPc = "work"
    /\ UNCHANGED NotSched
    /\ \E d \in 0..(MaxStall * Period) :
         /\ schClock + d <= MaxTime
         /\ schClock' = schClock + d
         /\ schWork' = d
         /\ schStalls' = IF d >= Period THEN schStalls + 1 ELSE schStalls
    /\ schPc' = "sleep"
    /\ UNCHANGED <<schDeadline, schOverrun, schNoSleep>>

\* Lines 66-68: sleep for the positive remainder (time.sleep may return a
\* little late), or go on at once.
SchedSleep ==
    /\ schPc = "sleep"
    /\ UNCHANGED NotSched
    /\ LET sleep_time == schDeadline - schClock IN
         IF sleep_time > 0
           THEN /\ \E late \in 0..1 :
                     /\ schClock + sleep_time + late <= MaxTime
                     /\ schClock' = schClock + sleep_time + late
                /\ schNoSleep' = 0
           ELSE /\ schNoSleep' = schNoSleep + 1
                /\ UNCHANGED schClock
    /\ schPc' = "top"
    /\ UNCHANGED <<schDeadline, schOverrun, schWork, schStalls>>

NextSched == SchedOpen \/ SchedTop \/ SchedWork \/ SchedSleep

\* -------------------------------------------------- imu.py: BNO055Manager
\* Mutant: a queue of two slots.
QueueMaxsizeTwo == 1 + 1

\* Queue(maxsize=1), line 76.
QueueMaxsize == 1

InitImu ==
    /\ imuPc = "idle"
    /\ process = 0
    /\ procAlive = {}
    /\ readerThread = 0
    /\ thrAlive = {}
    /\ stopReader = FALSE
    /\ spawned = <<0, 0>>
    /\ smPc = [p \in Ids |-> "none"]
    /\ smData = [p \in Ids |-> NoData]
    /\ qSem = QueueMaxsize
    /\ qFeed = [p \in Ids |-> <<>>]
    /\ qPipe = <<>>
    /\ rdPc = [t \in Ids |-> "none"]
    /\ buffer = BufferDefault
    /\ prodSeq = 0
    /\ rdLast = 0
    /\ rdPrev = 0
    /\ imuHist = [last |-> "none", stops |-> 0, started |-> FALSE,
                  both |-> FALSE, raised |-> FALSE]
    /\ smTicks = [p \in Ids |-> 0]
    /\ bufLock = 0
    /\ rdErr = 0
    /\ rdItem = NoData
    /\ clPc = "idle"
    /\ clSnap = NoSnap

\* Mutant: only the handle is tested, not is_alive().
ProcessRunningHandleOnly == process # 0

\* Mutant: stop() without its `if self._process:` test.
HasProcessAlways == TRUE

\* `self._process and self._process.is_alive()` (line 93).
ProcessRunning == process # 0 /\ process \in procAlive

\* Mutant: start() without its test of the thread handle.
ThreadRunningNever == FALSE

\* `self._reader_thread and self._reader_thread.is_alive()` (line 104).
ThreadRunning == readerThread # 0 /\ readerThread \in thrAlive
\* `if self._process:` (line 117) and `if self._reader_thread:` (line 123).
HasProcess == process # 0
HasThread == readerThread # 0

\* What start() and stop() never touch.
ManagerAux == <<smTicks, bufLock, rdErr, rdItem, clPc, clSnap>>

\* A caller enters start(); the model stops creating executors at MaxSpawn.
CallStart ==
    /\ imuPc = "idle"
    /\ UNCHANGED NotImu
    /\ ~imuHist.raised
    /\ ProcessRunning \/ spawned[1] < MaxSpawn
    /\ ThreadRunning \/ spawned[2] < MaxSpawn
    /\ imuPc' = "start_proc"
    /\ imuHist' = [imuHist EXCEPT !.last = "start", !.stops = 0,
                                  !.started = TRUE,
                                  !.both = (process # 0 /\ process \in procAlive
                                            /\ readerThread # 0
                                            /\ readerThread \in thrAlive)]
    /\ UNCHANGED <<process, procAlive, readerThread, thrAlive, stopReader,
                   spawned, smPc, smData, qSem, qFeed, qPipe, rdPc, buffer,
                   prodSeq, rdLast, rdPrev, ManagerAux>>

\* start(), lines 93-102: create and start the Sampler unless it is alive.
StartProc ==
    /\ imuPc = "start_proc"
    /\ UNCHANGED NotImu
    /\ IF ~ProcessRunning
         THEN /\ spawned[1] < MaxSpawn
              /\ LET p == spawned[1] + 1 IN
                   /\ process' = p
                   /\ procAlive' = procAlive \cup {p}
                   /\ smPc' = [smPc EXCEPT ![p] = "init"]
                   /\ spawned' = [spawned EXCEPT ![1] = p]
         ELSE UNCHANGED <<process, procAlive, smPc, spawned>>
    /\ imuPc' = "start_thr"
    /\ UNCHANGED <<readerThread, thrAlive, stopReader, smData, qSem, qFeed,
                   qPipe, rdPc, buffer, prodSeq, rdLast, rdPrev, imuHist,
                   ManagerAux>>

\* start(), lines 104-113: clear the stop signal and start the Aggregator
\* unless it is alive.
StartThread ==
    /\ imuPc = "start_thr"
    /\ UNCHANGED NotImu
    /\ IF ~ThreadRunning
         THEN /\ spawned[2] < MaxSpawn
              /\ LET t == spawned[2] + 1 IN
                   /\ stopReader' = FALSE
                   /\ readerThread' = t
                   /\ thrAlive' = thrAlive \cup {t}
                   /\ rdPc' = [rdPc EXCEPT ![t] = "check"]
                   /\ spawned' = [spawned EXCEPT ![2] = t]
         ELSE UNCHANGED <<stopReader, readerThread, thrAlive, rdPc, spawned>>
    /\ imuPc' = "idle"
    /\ UNCHANGED <<process, procAlive, smPc, smData, qSem, qFeed, qPipe,
                   buffer, prodSeq, rdLast, rdPrev, imuHist, ManagerAux>>

CallStop ==
    /\ imuPc = "idle"
    /\ UNCHANGED NotImu
    /\ ~imuHist.raised
    /\ imuPc' = "stop_proc"
    /\ imuHist' = [imuHist EXCEPT !.last = "stop",
                                  !.stops = IF @ < 2 THEN @ + 1 ELSE 2]
    /\ UNCHANGED <<process, procAlive, readerThread, thrAlive, stopReader,
                   spawned, smPc, smData, qSem, qFeed, qPipe, rdPc, buffer,
                   prodSeq, rdLast, rdPrev, ManagerAux>>

\* stop(), lines 117-121: terminate() and join() the Sampler, drop the
\* handle.  terminate() on None raises AttributeError.  What a killed
\* Sampler had put but its feeder thread had not yet written is lost with it.
StopProc ==
    /\ imuPc = "stop_proc"
    /\ UNCHANGED NotImu
    /\ IF HasProcess
         THEN IF process = 0
                THEN /\ imuPc' = "idle"
                     /\ imuHist' = [imuHist EXCEPT !.raised = TRUE]
                     /\ UNCHANGED <<process, procAlive, smPc, smData, qFeed>>
                ELSE /\ procAlive' = procAlive \ {process}
                     /\ smPc' = [smPc EXCEPT ![process] = "dead"]
                     /\ smData' = [smData EXCEPT ![process] = NoData]
                     /\ qFeed' = [qFeed EXCEPT ![process] = <<>>]
                     /\ process' = 0
                     /\ imuPc' = "stop_thr"
                     /\ UNCHANGED imuHist
         ELSE /\ imuPc' = "stop_thr"
              /\ UNCHANGED <<process, procAlive, smPc, smData, qFeed, imuHist>>
    /\ UNCHANGED <<readerThread, thrAlive, stopReader, spawned, qSem, qPipe,
                   rdPc, buffer, prodSeq, rdLast, rdPrev, ManagerAux>>

\* stop(), lines 123-124: set the stop signal (or return when there is no
\* thread handle).
StopSet ==
    /\ imuPc = "stop_thr"
    /\ UNCHANGED NotImu
    /\ IF HasThread
         THEN IF readerThread = 0
                THEN /\ imuPc' = "idle"
                     /\ imuHist' = [imuHist EXCEPT !.raised = TRUE]
                     /\ UNCHANGED stopReader
                ELSE /\ stopReader' = TRUE
                     /\ imuPc' = "stop_join"
                     /\ UNCHANGED imuHist
         ELSE /\ imuPc' = "idle"
              /\ UNCHANGED <<stopReader, imuHist>>
    /\ UNCHANGED <<process, procAlive, readerThread, thrAlive, spawned, smPc,
                   smData, qSem, qFeed, qPipe, rdPc, buffer, prodSeq, rdLast,
                   rdPrev, ManagerAux>>

\* stop(), lines 125-127: join() returns once the thread has exited.
StopJoin ==
    /\ imuPc = "stop_join"
    /\ UNCHANGED NotImu
    /\ readerThread \notin thrAlive
    /\ readerThread' = 0
    /\ imuPc' = "idle"
    /\ UNCHANGED <<process, procAlive, thrAlive, stopReader, spawned, smPc,
                   smData, qSem, qFeed, qPipe, rdPc, buffer, prodSeq, rdLast,
                   rdPrev, imuHist, ManagerAux>>

\* ------------------------------------------------- imu.py: _sensor_proc
SamplerFrame == <<imuPc, process, readerThread, thrAlive, stopReader, spawned,
                  rdPc, buffer, rdLast, rdPrev, imuHist, bufLock, rdErr,
                  rdItem, clPc, clSnap, NotImu>>

\* Lines 23-24: the I2C bus and the sensor are opened inside the child.
SamplerInit(p) ==
    /\ p \in procAlive /\ smPc[p] = "init"
    /\ smPc' = [smPc EXCEPT ![p] = "top"]
    /\ UNCHANGED <<procAlive, smData, qSem, qFeed, qPipe, prodSeq, smTicks>>
    /\ UNCHANGED SamplerFrame

\* Lines 23-24 raise (no bus, no sensor): the child dies before its loop.
SamplerCrash(p) ==
    /\ p \in procAlive /\ smPc[p] = "init"
    /\ procAlive' = procAlive \ {p}
    /\ smPc' = [smPc EXCEPT ![p] = "dead"]
    /\ UNCHANGED <<smData, qSem, qFeed, qPipe, prodSeq, smTicks>>
    /\ UNCHANGED SamplerFrame

\* Lines 26-35: the top of a tick; next_deadline is advanced by one period
\* (SpecSched has the arithmetic).  The model stops at MaxSamples reads.
SamplerTop(p) ==
    /\ p \in procAlive /\ smPc[p] = "top"
    /\ prodSeq < MaxSamples
    /\ smTicks' = [smTicks EXCEPT ![p] = @ + 1]
    /\ smPc' = [smPc EXCEPT ![p] = "read"]
    /\ UNCHANGED <<procAlive, smData, qSem, qFeed, qPipe, prodSeq>>
    /\ UNCHANGED SamplerFrame

\* Mutant: the sensor read without its try / except.
ReadFailureCaughtNot == FALSE

\* `except Exception:` of line 46 catches what the sensor read raises.
ReadFailureCaught == TRUE

\* Lines 38-51: one read; an exception leaves data = None and the tick
\* pushes nothing.
SamplerRead(p) ==
    /\ p \in procAlive /\ smPc[p] = "read"
    /\ prodSeq < MaxSamples
    /\ prodSeq' = prodSeq + 1
    /\ \/ IF ReadFailureCaught
            THEN /\ smData' = [smData EXCEPT ![p] = NoData]
                 /\ smPc' = [smPc EXCEPT ![p] = "sleep"]
                 /\ UNCHANGED <<procAlive, qFeed>>
            ELSE /\ procAlive' = procAlive \ {p}
                 /\ smPc' = [smPc EXCEPT ![p] = "dead"]
                 /\ smData' = [smData EXCEPT ![p] = NoData]
                 /\ qFeed' = [qFeed EXCEPT ![p] = <<>>]
       \/ \E d \in SensorReadings(prodSeq + 1) :
            /\ smData' = [smData EXCEPT ![p] = Item(prodSeq + 1, d)]
            /\ smPc' = [smPc EXCEPT ![p] = "full"]
            /\ UNCHANGED <<procAlive, qFeed>>
    /\ UNCHANGED <<qSem, qPipe, smTicks>>
    /\ UNCHANGED SamplerFrame

\* Line 53: q.full() is "the maxsize semaphore has no free slot".
SamplerFull(p) ==
    /\ p \in procAlive /\ smPc[p] = "full"
    /\ smPc' = [smPc EXCEPT ![p] = IF qSem = 0 THEN "get" ELSE "put"]
    /\ UNCHANGED <<procAlive, smData, qSem, qFeed, qPipe, prodSeq, smTicks>>
    /\ UNCHANGED SamplerFrame

\* Lines 55-58: q.get_nowait() takes what the pipe holds, or raises Empty.
SamplerEvict(p) ==
    /\ p \in procAlive /\ smPc[p] = "get"
    /\ IF qPipe # <<>>
         THEN qPipe' = Tail(qPipe) /\ qSem' = qSem + 1
         ELSE UNCHANGED <<qPipe, qSem>>
    /\ smPc' = [smPc EXCEPT ![p] = "put"]
    /\ UNCHANGED <<procAlive, smData, qFeed, prodSeq, smTicks>>
    /\ UNCHANGED SamplerFrame

\* Lines 59-62: q.put_nowait(data) takes a free slot and hands the item to
\* the feeder, or raises Full (ignored).  `data` stays bound until the next
\* read.
SamplerPut(p) ==
    /\ p \in procAlive /\ smPc[p] = "put"
    /\ IF qSem > 0
         THEN /\ qSem' = qSem - 1
              /\ qFeed' = [qFeed EXCEPT ![p] = Append(@, smData[p])]
         ELSE UNCHANGED <<qSem, qFeed>>
    /\ smPc' = [smPc EXCEPT ![p] = "sleep"]
    /\ UNCHANGED <<procAlive, smData, qPipe, prodSeq, smTicks>>
    /\ UNCHANGED SamplerFrame

\* Lines 66-68: sleep for what is left of the period, then the next tick.
SamplerSleep(p) ==
    /\ p \in procAlive /\ smPc[p] = "sleep"
    /\ smPc' = [smPc EXCEPT ![p] = "top"]
    /\ UNCHANGED <<procAlive, smData, qSem, qFeed, qPipe, prodSeq, smTicks>>
    /\ UNCHANGED SamplerFrame

\* The queue's feeder thread in the child writes a put item to the pipe.
Feeder(p) ==
    /\ p \in procAlive /\ qFeed[p] # <<>>
    /\ qPipe' = Append(qPipe, Head(qFeed[p]))
    /\ qFeed' = [qFeed EXCEPT ![p] = Tail(@)]
    /\ UNCHANGED <<procAlive, smPc, smData, qSem, prodSeq, smTicks>>
    /\ UNCHANGED SamplerFrame

\* ------------------------------------------------- imu.py: _reader_loop
ReaderFrame == <<imuPc, process, procAlive, readerThread, stopReader, spawned,
                 smPc, smData, qFeed, prodSeq, imuHist, smTicks, clPc, clSnap,
                 NotImu>>

\* Mutant: a loop that never looks at the stop signal.
StopRequestedNever == FALSE

\* `self._stop_reader.is_set()` (line 131).
StopRequested == stopReader

\* Line 131: the loop condition; the thread ends when the signal is set.
ReaderCheck(t) ==
    /\ t \in thrAlive /\ rdPc[t] = "check"
    /\ IF StopRequested
         THEN /\ thrAlive' = thrAlive \ {t}
              /\ rdPc' = [rdPc EXCEPT ![t] = "done"]
         ELSE /\ rdPc' = [rdPc EXCEPT ![t] = "get"]
              /\ UNCHANGED thrAlive
    /\ UNCHANGED <<qSem, qPipe, buffer, rdLast, rdPrev, bufLock, rdErr,
                   rdItem>>
    /\ UNCHANGED ReaderFrame

\* Line 133: get(timeout=0.1) returns the sample at the head of the pipe and
\* frees its slot.
ReaderGet(t) ==
    /\ t \in thrAlive /\ rdPc[t] = "get"
    /\ qPipe # <<>>
    /\ qPipe' = Tail(qPipe)
    /\ qSem' = qSem + 1
    /\ rdItem' = Head(qPipe)
    /\ rdPc' = [rdPc EXCEPT ![t] = "merge"]
    /\ UNCHANGED <<thrAlive, buffer, rdLast, rdPrev, bufLock, rdErr>>
    /\ UNCHANGED ReaderFrame

\* `with self._lock:` (line 134) releases the lock however its body ends.
WithReleases(exc) == TRUE

\* Mutant: the loop without its `except Exception:` clause.
MergeFailureLoggedNot == FALSE

\* `except Exception:` of lines 147-148 logs what the unpacking or the merge
\* raises; the loop goes on.
MergeFailureLogged == TRUE

\* Lines 133-144 and 147-148: the sample is unpacked, then merged under
\* self._lock, which an unpacking failure never requests.
ReaderMerge(t) ==
    /\ t \in thrAlive /\ rdPc[t] = "merge"
    /\ Len(rdItem.data) = 5 => bufLock = 0
    /\ LET m == MergeSample(buffer, rdItem.data) IN
         /\ buffer' = m.buf
         /\ bufLock' = IF Len(rdItem.data) # 5 THEN bufLock
                        ELSE IF WithReleases(m.exc) THEN 0 ELSE t
         /\ rdErr' = IF m.exc THEN rdErr + 1 ELSE rdErr
         /\ IF m.exc /\ ~MergeFailureLogged
              THEN /\ thrAlive' = thrAlive \ {t}
                   /\ rdPc' = [rdPc EXCEPT ![t] = "done"]
              ELSE /\ rdPc' = [rdPc EXCEPT ![t] = "check"]
                   /\ UNCHANGED thrAlive
    /\ rdPrev' = rdLast
    /\ rdLast' = rdItem.seq
    /\ rdItem' = NoData
    /\ UNCHANGED <<qSem, qPipe>>
    /\ UNCHANGED ReaderFrame

\* Lines 133 and 145-146: get(timeout=0.1) raises queue.Empty.
ReaderTimeout(t) ==
    /\ t \in thrAlive /\ rdPc[t] = "get"
    /\ qPipe = <<>>
    /\ rdPc' = [rdPc EXCEPT ![t] = "check"]
    /\ UNCHANGED <<thrAlive, qSem, qPipe, buffer, rdLast, rdPrev, bufLock,
                   rdErr, rdItem>>
    /\ UNCHANGED ReaderFrame

NextImu ==
    \/ CallStart \/ StartProc \/ StartThread
    \/ CallStop \/ StopProc \/ StopSet \/ StopJoin
    \/ \E p \in Ids : SamplerInit(p)
    \/ \E p \in Ids : SamplerCrash(p)
    \/ \E p \in Ids : SamplerTop(p)
    \/ \E p \in Ids : SamplerRead(p)
    \/ \E p \in Ids : SamplerFull(p)
    \/ \E p \in Ids : SamplerEvict(p)
    \/ \E p \in Ids : SamplerPut(p)
    \/ \E p \in Ids : SamplerSleep(p)
    \/ \E p \in Ids : Feeder(p)
    \/ \E t \in Ids : ReaderCheck(t)
    \/ \E t \in Ids : ReaderGet(t)
    \/ \E t \in Ids : ReaderMerge(t)
    \/ \E t \in Ids : ReaderTimeout(t)

\* ------------------------------------- the Aggregator on arbitrary samples
FieldKinds == {"valid", "partial", "none"}

\* Per-field kinds of a delivered sample: all five alike, or four alike and
\* one field of another kind.
Patterns ==
    { f \in [1..5 -> FieldKinds] :
        \E base \in FieldKinds :
            Cardinality({i \in 1..5 : f[i] # base}) <= 1 }

\* The samples the channel may hand to the Aggregator as number n: every
\* pattern of None / partly-None / valid fields, a sample of the wrong
\* arity, and one whose third field is not iterable.
Deliverable(n) ==
    { [i \in 1..5 |-> FieldOfKind(f[i], n, i)] : f \in Patterns }
    \cup { [i \in 1..4 |-> ValidField(n, i)] }
    \cup { [i \in 1..5 |-> IF i = 3 THEN Scalar(n) ELSE ValidField(n, i)] }

\* After start(): Sampler 1 and Aggregator 1 are alive.
InitMerge ==
    /\ imuPc = "idle"
    /\ process = 1
    /\ procAlive = {1}
    /\ readerThread = 1
    /\ thrAlive = {1}
    /\ stopReader = FALSE
    /\ spawned = <<1, 1>>
    /\ smPc = [p \in Ids |-> IF p = 1 THEN "top" ELSE "none"]
    /\ smData = [p \in Ids |-> NoData]
    /\ qSem = QueueMaxsize
    /\ qFeed = [p \in Ids |-> <<>>]
    /\ qPipe = <<>>
    /\ rdPc = [t \in Ids |-> IF t = 1 THEN "check" ELSE "none"]
    /\ buffer = BufferDefault
    /\ prodSeq = 0
    /\ rdLast = 0
    /\ rdPrev = 0
    /\ imuHist = [last |-> "start", stops |-> 0, started |-> TRUE,
                  both |-> FALSE, raised |-> FALSE]
    /\ smTicks = [p \in Ids |-> 0]
    /\ bufLock = 0
    /\ rdErr = 0
    /\ rdItem = NoData
    /\ clPc = "idle"
    /\ clSnap = NoSnap

\* One whole push of the Sampler (lines 51-64 and the feeder), with any
\* sample content.
Deliver ==
    /\ prodSeq < MaxDeliver
    /\ UNCHANGED NotImu
    /\ qSem > 0
    /\ \E d \in Deliverable(prodSeq + 1) :
         qPipe' = Append(qPipe, Item(prodSeq + 1, d))
    /\ qSem' = qSem - 1
    /\ prodSeq' = prodSeq + 1
    /\ UNCHANGED <<imuPc, process, procAlive, readerThread, thrAlive,
                   stopReader, spawned, smPc, smData, qFeed, rdPc, buffer,
                   rdLast, rdPrev, imuHist, smTicks, bufLock, rdErr, rdItem,
                   clPc, clSnap>>

\* ------------------------------------------- imu.py: reading the buffer
\* A thread other than the Aggregator: the caller of the getters.
ClientThread == MaxSpawn + 1

ClientFrame == <<imuPc, process, procAlive, readerThread, thrAlive,
                 stopReader, spawned, smPc, smData, qSem, qFeed, qPipe, rdPc,
                 buffer, prodSeq, rdLast, rdPrev, imuHist, smTicks, rdErr,
                 rdItem, NotImu>>

\* Reading slot i of self._buffer.
ReadSlot(snap, i) ==
    [snap EXCEPT ![i] = [read |-> TRUE, v |-> buffer[SlotNames[i]],
                         at |-> buffer]]

\* Mutant: a getter that reads the buffer without taking the lock.
GetterHoldsNothing(who) == 0

\* `with self._lock:` of a getter (lines 152, 161, 166): the calling thread
\* holds the lock for the body.
GetterHolds(who) == who

\* Line 176 calling get_values, line 152: the lock is acquired.
GetValuesEnter ==
    /\ clPc = "idle"
    /\ bufLock = 0
    /\ bufLock' = GetterHolds(ClientThread)
    /\ clPc' = "accel"
    /\ UNCHANGED clSnap
    /\ UNCHANGED ClientFrame

\* Lines 153-157: the three slots are read one after the other into the
\* returned tuple; the lock is released on return.
GetValuesRead ==
    /\ clPc \in {"accel", "gyro", "mag"}
    /\ LET i == IF clPc = "accel" THEN 1 ELSE IF clPc = "gyro" THEN 2 ELSE 3
       IN  clSnap' = ReadSlot(clSnap, i)
    /\ clPc' = IF clPc = "accel" THEN "gyro"
               ELSE IF clPc = "gyro" THEN "mag" ELSE "quat"
    /\ bufLock' = IF clPc = "mag" /\ bufLock = ClientThread THEN 0 ELSE bufLock
    /\ UNCHANGED ClientFrame

\* Lines 159-162, called from line 177: one slot read under its own
\* acquisition of the lock.
GetQuaternion ==
    /\ clPc = "quat"
    /\ bufLock = 0
    /\ clSnap' = ReadSlot(clSnap, 4)
    /\ clPc' = "calib"
    /\ UNCHANGED bufLock
    /\ UNCHANGED ClientFrame

\* Lines 164-167, called from line 178: likewise.
GetCalibrationStatus ==
    /\ clPc = "calib"
    /\ bufLock = 0
    /\ clSnap' = ReadSlot(clSnap, 5)
    /\ clPc' = "done"
    /\ UNCHANGED bufLock
    /\ UNCHANGED ClientFrame

\* Lines 179-185: the five values are used, then the next round starts.
ClientNext ==
    /\ clPc = "done"
    /\ clPc' = "idle"
    /\ clSnap' = NoSnap
    /\ UNCHANGED bufLock
    /\ UNCHANGED ClientFrame

NextMerge ==
    \/ Deliver
    \/ CallStop \/ StopProc \/ StopSet \/ StopJoin
    \/ GetValuesEnter \/ GetValuesRead
    \/ GetQuaternion \/ GetCalibrationStatus \/ ClientNext
    \/ \E t \in Ids : ReaderCheck(t)
    \/ \E t \in Ids : ReaderGet(t)
    \/ \E t \in Ids : ReaderMerge(t)
    \/ \E t \in Ids : ReaderTimeout(t)


\* Every sample the Handoff Channel holds: in a live Sampler's feeder buffer
\* or in the pipe.
RECURSIVE FeedItems(_)
FeedItems(ps) ==
    IF ps = {} THEN <<>>
    ELSE LET p == CHOOSE x \in ps : TRUE IN qFeed[p] \o FeedItems(ps \ {p})

ChannelItems == qPipe \o FeedItems(Ids)

\* ------------------------------------------------ kos.py: ActuatorService
\* The handlers are coroutines of one event loop.  The model lets the steps
\* of different calls interleave at every statement, which covers every
\* schedule the loop can produce.
Calls == 1..NumCalls

NoResponse == [type |-> "none", code |-> "none", success |-> FALSE]
Response(t, c, ok) == [type |-> t, code |-> c, success |-> ok]

\* A call: its position (pc), its handler (kind), the exception in flight
\* (exc), the controller's return value (success), the response returned
\* (resp); ghosts: lock acquisitions (acq) and releases (rel), whether its
\* waiter future was resolved (woken), controller invocations (ctrl).
IdleCall ==
    [pc |-> "idle", kind |-> "none", exc |-> "none", success |-> FALSE,
     resp |-> NoResponse, acq |-> 0, rel |-> 0, woken |-> FALSE, ctrl |-> 0]

\* ActuatorService.__init__ (line 35): a fresh asyncio.Lock.
InitGw ==
    /\ gwCall = [c \in Calls |-> IdleCall]
    /\ lockLocked = FALSE
    /\ lockWaiters = <<>>
    /\ inCtrl = {}

\* A request is dispatched to ConfigureActuator or CommandActuators.
Arrive(c) ==
    /\ UNCHANGED NotGw
    /\ gwCall[c].pc = "idle"
    /\ \E k \in {"Configure", "Command"} :
         gwCall' = [gwCall EXCEPT ![c].pc = "acquire", ![c].kind = k]
    /\ UNCHANGED <<lockLocked, lockWaiters, inCtrl>>

\* Mutant: a lock that never makes a caller wait.
LockAvailableAlways == TRUE

\* asyncio.Lock.acquire's fast path: not locked and nobody queued.
LockAvailable == ~lockLocked /\ lockWaiters = <<>>

\* `async with self.temporal_lock:` (lines 40, 84), entry: take the lock or
\* queue behind the holder.
Acquire(c) ==
    /\ UNCHANGED NotGw
    /\ gwCall[c].pc = "acquire"
    /\ IF LockAvailable
         THEN /\ lockLocked' = TRUE
              /\ gwCall' = [gwCall EXCEPT ![c].pc = "decode",
                                          ![c].acq = @ + 1]
              /\ UNCHANGED lockWaiters
         ELSE /\ lockWaiters' = Append(lockWaiters, c)
              /\ gwCall' = [gwCall EXCEPT ![c].pc = "waiting"]
              /\ UNCHANGED lockLocked
    /\ UNCHANGED inCtrl

\* asyncio.Lock.acquire after its future is resolved: leave the queue and
\* take the lock.
Resume(c) ==
    /\ UNCHANGED NotGw
    /\ gwCall[c].pc = "waiting" /\ gwCall[c].woken
    /\ lockWaiters' = SelectSeq(lockWaiters, LAMBDA w : w # c)
    /\ lockLocked' = TRUE
    /\ gwCall' = [gwCall EXCEPT ![c].pc = "decode", ![c].acq = @ + 1,
                                ![c].woken = FALSE]
    /\ UNCHANGED inCtrl

\* Lines 41-57 / 85-94: build the config dict or the servo_commands map; an
\* exception here leaves the `async with` block.
Decode(c) ==
    /\ UNCHANGED NotGw
    /\ gwCall[c].pc = "decode"
    /\ \/ gwCall' = [gwCall EXCEPT ![c].pc = "apply"]
       \/ gwCall' = [gwCall EXCEPT ![c].pc = "aexit", ![c].exc = "Exception"]
    /\ UNCHANGED <<lockLocked, lockWaiters, inCtrl>>

\* Lines 59 / 95: the call enters configure_actuator / set_positions.
CtrlEnter(c) ==
    /\ UNCHANGED NotGw
    /\ gwCall[c].pc = "apply"
    /\ gwCall' = [gwCall EXCEPT ![c].pc = "inctrl", ![c].ctrl = @ + 1]
    /\ inCtrl' = inCtrl \cup {c}
    /\ UNCHANGED <<lockLocked, lockWaiters>>

\* The controller returns (configure_actuator: True or False), raises
\* RuntimeError ("operation in progress") or raises something else.
CtrlReturn(c) ==
    /\ UNCHANGED NotGw
    /\ gwCall[c].pc = "inctrl"
    /\ inCtrl' = inCtrl \ {c}
    /\ \/ gwCall' = [gwCall EXCEPT ![c].pc = "aexit", ![c].success = TRUE]
       \/ /\ gwCall[c].kind = "Configure"
          /\ gwCall' = [gwCall EXCEPT ![c].pc = "aexit", ![c].success = FALSE]
       \/ \E x \in {"RuntimeError", "Exception"} :
            gwCall' = [gwCall EXCEPT ![c].pc = "aexit", ![c].exc = x]
    /\ UNCHANGED <<lockLocked, lockWaiters>>

\* Mutant: the lock is released on the normal path only.
ReleasesOnSuccessOnly(exc) == exc = "none"

\* `async with` runs __aexit__, which releases, whatever leaves the block.
ReleasesOn(exc) == TRUE

\* `async with`, exit: asyncio.Lock.release unlocks and resolves the first
\* waiter's future; on an unlocked lock it raises RuntimeError.
Release(c) ==
    /\ UNCHANGED NotGw
    /\ gwCall[c].pc = "aexit"
    /\ IF ReleasesOn(gwCall[c].exc)
         THEN IF lockLocked
                THEN /\ lockLocked' = FALSE
                     /\ gwCall' =
                          [d \in Calls |->
                             IF d = c
                               THEN [gwCall[c] EXCEPT !.pc = "respond",
                                                      !.rel = @ + 1]
                             ELSE IF lockWaiters # <<>> /\ d = Head(lockWaiters)
                               THEN [gwCall[d] EXCEPT !.woken = TRUE]
                             ELSE gwCall[d]]
                ELSE /\ gwCall' = [gwCall EXCEPT ![c].pc = "respond",
                                                 ![c].exc = "RuntimeError"]
                     /\ UNCHANGED lockLocked
         ELSE /\ gwCall' = [gwCall EXCEPT ![c].pc = "respond"]
              /\ UNCHANGED lockLocked
    /\ UNCHANGED <<lockWaiters, inCtrl>>

\* Mutant: no `except RuntimeError` clause, every exception is INTERNAL.
ResponseOfNoRuntimeClause(kind, exc, success) ==
    IF exc = "none"
      THEN IF kind = "Configure"
             THEN Response("ActionResponse", "OK", success)
             ELSE Response("CommandActuatorsResponse", "OK", FALSE)
      ELSE IF kind = "Configure"
             THEN Response("ActionResponse", "INTERNAL", FALSE)
             ELSE Response("CommandActuatorsResponse", "INTERNAL", FALSE)

\* The response each handler returns: line 67 or 97 on the normal path,
\* lines 69-72 / 99-102 on RuntimeError, lines 74-79 / 104-107 otherwise.
ResponseOf(kind, exc, success) ==
    IF kind = "Configure"
      THEN IF exc = "none" THEN Response("ActionResponse", "OK", success)
           ELSE IF exc = "RuntimeError"
             THEN Response("ActionResponse", "RESOURCE_EXHAUSTED", FALSE)
           ELSE Response("ActionResponse", "INTERNAL", FALSE)
      ELSE IF exc = "none" THEN Response("CommandActuatorsResponse", "OK", FALSE)
           ELSE IF exc = "RuntimeError"
             THEN Response("ActionResponse", "RESOURCE_EXHAUSTED", FALSE)
           ELSE Response("CommandActuatorsResponse", "INTERNAL", FALSE)

Respond(c) ==
    /\ UNCHANGED NotGw
    /\ gwCall[c].pc = "respond"
    /\ gwCall' = [gwCall EXCEPT
                    ![c].pc = "done",
                    ![c].resp = ResponseOf(gwCall[c].kind, gwCall[c].exc,
                                           gwCall[c].success)]
    /\ UNCHANGED <<lockLocked, lockWaiters, inCtrl>>

NextGateway ==
    \/ \E c \in Calls : Arrive(c)
    \/ \E c \in Calls : Acquire(c)
    \/ \E c \in Calls : Resume(c)
    \/ \E c \in Calls : Decode(c)
    \/ \E c \in Calls : CtrlEnter(c)
    \/ \E c \in Calls : CtrlReturn(c)
    \/ \E c \in Calls : Release(c)
    \/ \E c \in Calls : Respond(c)

\* ------------------------------------------------ kos.py: singleton_check
Insts == 1..NumInst

\* Text is a sequence of one-character strings.
Digits == <<"0", "1", "2", "3", "4", "5", "6", "7", "8", "9">>
Whitespace == {" ", "\n"}

IsDigitChar(ch) == \E k \in 1..10 : Digits[k] = ch
DigitVal(ch) == (CHOOSE k \in 1..10 : Digits[k] = ch) - 1

\* str(n) for n >= 0.
RECURSIVE Str(_)
Str(n) ==
    IF n < 10 THEN <<Digits[n + 1]>>
    ELSE Str(n \div 10) \o <<Digits[(n % 10) + 1]>>

\* int(s) for a string of decimal digits.
RECURSIVE ToInt(_)
ToInt(s) ==
    IF s = <<>> THEN 0
    ELSE 10 * ToInt(SubSeq(s, 1, Len(s) - 1)) + DigitVal(s[Len(s)])

\* str.strip().
RECURSIVE Strip(_)
Strip(s) ==
    IF s = <<>> THEN s
    ELSE IF Head(s) \in Whitespace THEN Strip(Tail(s))
    ELSE IF s[Len(s)] \in Whitespace THEN Strip(SubSeq(s, 1, Len(s) - 1))
    ELSE s

\* `existing_pid and existing_pid.isdigit()` (line 430).
IsPidText(s) == s # <<>> /\ \A k \in 1..Len(s) : IsDigitChar(s[k])

\* str.lower() on the operator's answer.
LowerChar(ch) == IF ch = "Y" THEN "y" ELSE IF ch = "N" THEN "n" ELSE ch
Lower(s) == [k \in 1..Len(s) |-> LowerChar(s[k])]

\* What the operator may type at the prompt of line 434.
Answers == {<<"y">>, <<"Y">>, <<"n">>, <<>>}

\* Mutant: an empty answer counts as yes.
ConfirmedUnlessNo(answer) == Lower(answer) # <<"n">>

\* `answer.lower() == "y"` (line 437).
Confirmed(answer) == Lower(answer) = <<"y">>

\* os.getpid() of instance p.
Pid(p) == 40 + p

\* range(10) of line 442.
PollMax == 10

\* What /tmp/kos.pid may hold before any instance of the model starts: a
\* newline-terminated PID of a process long gone, or garbage.
StaleText == <<"9", "0", "7", "\n">>
GarbageText == <<"k", "o", "s">>

Inodes == 1..(NumInst + 1)
NoFile == [content |-> <<>>, lock |-> 0]

\* An instance: its position (pc), pidfile_fd's inode (fd), existing_pid,
\* successful liveness polls so far (polls), the exit status (exit, 0 while
\* running); ghosts: the answer typed, what the instance has done to the
\* file, the lock or the other process (did), whether a lock was held on
\* the pidfile when it opened it (lockedAtOpen), the outcome of the first
\* lockf (first) and of the one after the polls (second), and the pidfile
\* as it is when the call returns (ret).
NewInst ==
    [pc |-> "new", fd |-> 0, existing_pid |-> <<>>, polls |-> 0, exit |-> 0,
     answered |-> FALSE, answer |-> <<>>, did |-> {}, lockedAtOpen |-> FALSE,
     first |-> "none", second |-> "none",
     ret |-> [exists |-> FALSE, content |-> <<>>]]

InitGuard ==
    /\ inst = [p \in Insts |-> NewInst]
    /\ \/ /\ pidfile = 0
          /\ nfiles = 0
          /\ files = [i \in Inodes |-> NoFile]
       \/ /\ pidfile = 1
          /\ nfiles = 1
          /\ \E t \in {<<>>, StaleText, GarbageText} :
               files = [i \in Inodes |->
                          IF i = 1 THEN [content |-> t, lock |-> 0] ELSE NoFile]

\* A process that exists: started and neither exited, crashed nor killed.
Live(p) == inst[p].pc \notin {"new", "exited", "crashed", "dead"}

\* os.kill(pid, 0) succeeds: some live process has that pid.
PidAlive(n) == \E q \in Insts : Pid(q) = n /\ Live(q)

\* The locks a process holds are dropped when it ends.
Unlocked(p) ==
    [i \in Inodes |-> IF files[i].lock = p THEN [files[i] EXCEPT !.lock = 0]
                      ELSE files[i]]

\* sys.exit(1), or an exception nobody catches: the process ends with
\* status 1, and its locals are gone.
Ended(r, how) ==
    [r EXCEPT !.pc = how, !.exit = 1, !.fd = 0, !.existing_pid = <<>>,
              !.polls = 0]

Ends(p, how) ==
    /\ inst' = [inst EXCEPT ![p] = Ended(@, how)]
    /\ files' = Unlocked(p)

\* fcntl.lockf(fd, LOCK_EX | LOCK_NB) succeeds.
LockFree(p, i) == files[i].lock \in {0, p}

\* Line 423: os.open(pidfile, O_RDWR | O_CREAT).
Open(p) ==
    /\ UNCHANGED NotSg
    /\ inst[p].pc = "new"
    /\ IF pidfile = 0
         THEN /\ nfiles' = nfiles + 1
              /\ pidfile' = nfiles + 1
              /\ files' = [files EXCEPT ![nfiles + 1] = NoFile]
              /\ inst' = [inst EXCEPT ![p].pc = "lock1", ![p].fd = nfiles + 1,
                                      ![p].did = @ \cup {"create"}]
         ELSE /\ inst' = [inst EXCEPT ![p].pc = "lock1", ![p].fd = pidfile,
                                      ![p].lockedAtOpen =
                                          files[pidfile].lock # 0]
              /\ UNCHANGED <<pidfile, files, nfiles>>

\* Lines 424-426: the first lockf.
Lock1(p) ==
    /\ UNCHANGED NotSg
    /\ inst[p].pc = "lock1"
    /\ IF LockFree(p, inst[p].fd)
         THEN /\ files' = [files EXCEPT ![inst[p].fd].lock = p]
              /\ inst' = [inst EXCEPT ![p].pc = "truncate", ![p].first = "ok",
                                      ![p].did = @ \cup {"lock"}]
         ELSE /\ inst' = [inst EXCEPT ![p].pc = "read", ![p].first = "busy"]
              /\ UNCHANGED files
    /\ UNCHANGED <<pidfile, nfiles>>

\* Lines 428-429: read the path again; no file there is an exception raised
\* inside the handler.
ReadPid(p) ==
    /\ UNCHANGED NotSg
    /\ inst[p].pc = "read"
    /\ IF pidfile = 0
         THEN Ends(p, "crashed")
         ELSE /\ inst' = [inst EXCEPT
                            ![p].pc = "check",
                            ![p].existing_pid = Strip(files[pidfile].content)]
              /\ UNCHANGED files
    /\ UNCHANGED <<pidfile, nfiles>>

\* Lines 430-433 and 456-462: a PID of a live process leads to the prompt,
\* anything else to the removal of the file.
CheckPid(p) ==
    /\ UNCHANGED NotSg
    /\ inst[p].pc = "check"
    /\ inst' = [inst EXCEPT ![p].pc =
                  IF IsPidText(inst[p].existing_pid)
                     /\ PidAlive(ToInt(inst[p].existing_pid))
                    THEN "prompt" ELSE "remove"]
    /\ UNCHANGED <<pidfile, files, nfiles>>

\* Lines 434-437 and 453-455: the operator answers; anything but yes exits.
Prompt(p) ==
    /\ UNCHANGED NotSg
    /\ inst[p].pc = "prompt"
    /\ \E a \in Answers :
         IF Confirmed(a)
           THEN /\ inst' = [inst EXCEPT ![p].pc = "sigterm",
                                        ![p].answered = TRUE, ![p].answer = a]
                /\ UNCHANGED files
           ELSE /\ inst' = [inst EXCEPT
                              ![p] = [Ended(@, "exited") EXCEPT
                                        !.answered = TRUE, !.answer = a]]
                /\ files' = Unlocked(p)
    /\ UNCHANGED <<pidfile, nfiles>>

\* Line 438: os.kill(pid, 15); OSError (no such process) is caught at 456.
\* The signalled process ends when it ends (Die).
Sigterm(p) ==
    /\ UNCHANGED NotSg
    /\ inst[p].pc = "sigterm"
    /\ inst' = IF PidAlive(ToInt(inst[p].existing_pid))
                 THEN [inst EXCEPT ![p].pc = "poll", ![p].polls = 0,
                                   ![p].did = @ \cup {"signal"}]
                 ELSE [inst EXCEPT ![p].pc = "remove"]
    /\ UNCHANGED <<pidfile, files, nfiles>>

\* Lines 442-450: up to PollMax liveness polls half a second apart; all of
\* them answered is the for-else, sys.exit(1).
Poll(p) ==
    /\ UNCHANGED NotSg
    /\ inst[p].pc = "poll"
    /\ IF inst[p].polls >= PollMax
         THEN Ends(p, "exited")
         ELSE /\ inst' = IF PidAlive(ToInt(inst[p].existing_pid))
                           THEN [inst EXCEPT ![p].polls = @ + 1]
                           ELSE [inst EXCEPT ![p].pc = "lock2"]
              /\ UNCHANGED files
    /\ UNCHANGED <<pidfile, nfiles>>

\* Line 452: lockf again; its IOError is an OSError, caught at line 456.
Lock2(p) ==
    /\ UNCHANGED NotSg
    /\ inst[p].pc = "lock2"
    /\ IF LockFree(p, inst[p].fd)
         THEN /\ files' = [files EXCEPT ![inst[p].fd].lock = p]
              /\ inst' = [inst EXCEPT ![p].pc = "truncate",
                                      ![p].second = "ok",
                                      ![p].did = @ \cup {"lock"}]
         ELSE /\ inst' = [inst EXCEPT ![p].pc = "remove",
                                      ![p].second = "busy"]
              /\ UNCHANGED files
    /\ UNCHANGED <<pidfile, nfiles>>

\* Lines 459 / 463: os.remove(pidfile) unlinks whatever the path names.
Remove(p) ==
    /\ UNCHANGED NotSg
    /\ inst[p].pc = "remove"
    /\ IF pidfile = 0
         THEN Ends(p, "crashed") /\ UNCHANGED pidfile
         ELSE /\ pidfile' = 0
              /\ inst' = [inst EXCEPT ![p].pc = "lock3",
                                      ![p].did = @ \cup {"remove"}]
              /\ UNCHANGED files
    /\ UNCHANGED nfiles

\* Lines 460 / 464: lockf on the descriptor opened at line 423; nothing
\* catches its IOError.
Lock3(p) ==
    /\ UNCHANGED NotSg
    /\ inst[p].pc = "lock3"
    /\ IF LockFree(p, inst[p].fd)
         THEN /\ files' = [files EXCEPT ![inst[p].fd].lock = p]
              /\ inst' = [inst EXCEPT ![p].pc = "truncate",
                                      ![p].did = @ \cup {"lock"}]
         ELSE Ends(p, "crashed")
    /\ UNCHANGED <<pidfile, nfiles>>

\* os.ftruncate(fd, 0).
Truncated(content) == <<>>

\* Line 466.
Truncate(p) ==
    /\ UNCHANGED NotSg
    /\ inst[p].pc = "truncate"
    /\ files' = [files EXCEPT ![inst[p].fd].content = Truncated(@)]
    /\ inst' = [inst EXCEPT ![p].pc = "write", ![p].did = @ \cup {"truncate"}]
    /\ UNCHANGED <<pidfile, nfiles>>

\* os.write at offset 0 of a descriptor that was never read or written.
WriteAt0(content, text) ==
    text \o SubSeq(content, Len(text) + 1, Len(content))

\* Lines 467-469: write str(os.getpid()) and return the descriptor.
WritePid(p) ==
    /\ UNCHANGED NotSg
    /\ inst[p].pc = "write"
    /\ files' = [files EXCEPT ![inst[p].fd].content = WriteAt0(@, Str(Pid(p)))]
    /\ inst' = [inst EXCEPT
                  ![p].pc = "returned",
                  ![p].did = @ \cup {"write"},
                  ![p].ret = IF pidfile = 0
                               THEN [exists |-> FALSE, content |-> <<>>]
                               ELSE [exists |-> TRUE,
                                     content |-> files'[pidfile].content]]
    /\ UNCHANGED <<pidfile, nfiles>>

\* A process is killed or dies at any point, in singleton_check or later.
Die(p) ==
    /\ UNCHANGED NotSg
    /\ Live(p)
    /\ inst' = [inst EXCEPT ![p] = [NewInst EXCEPT !.pc = "dead"]]
    /\ files' = Unlocked(p)
    /\ UNCHANGED <<pidfile, nfiles>>

NextGuard ==
    \/ \E p \in Insts : Open(p)
    \/ \E p \in Insts : Lock1(p)
    \/ \E p \in Insts : ReadPid(p)
    \/ \E p \in Insts : CheckPid(p)
    \/ \E p \in Insts : Prompt(p)
    \/ \E p \in Insts : Sigterm(p)
    \/ \E p \in Insts : Poll(p)
    \/ \E p \in Insts : Lock2(p)
    \/ \E p \in Insts : Remove(p)
    \/ \E p \in Insts : Lock3(p)
    \/ \E p \in Insts : Truncate(p)
    \/ \E p \in Insts : WritePid(p)
    \/ \E p \in Insts : Die(p)

\* ------------------------------------- kos.py: the per-item RPC handlers
\* Ids a request may name: the registrable ones and one that never is.
ActuatorIds == 1..NumIds
RequestIds == 1..(NumIds + 1)

\* The actuator controller (kos_zbot.actuator, an opaque collaborator): a
\* registered actuator is reporting with torque on ("on"), reporting with
\* torque off and a fault on record ("off"), known without state
\* ("absent"), or its bus access raises ("raises").
CtlKinds == {"on", "off", "absent", "raises"}
NotRegistered == "unregistered"

Absent == [present |-> FALSE]
Position(id) == 10 * id + 1
Velocity(id) == 10 * id + 2

\* getState(id) -> {position, velocity} | absent.
get_state(id) ==
    IF ctl[id] \in {"on", "off"}
      THEN [present |-> TRUE, position |-> Position(id),
            velocity |-> Velocity(id)]
      ELSE Absent

\* getTorqueEnabled(id) -> bool.
get_torque_enabled(id) == ctl[id] = "on"

\* getFaults(id) -> fault-info | absent.
get_faults(id) ==
    IF ctl[id] = "off"
      THEN [present |-> TRUE, last_fault_message |-> "overload",
            total_faults |-> "1", last_fault_time |-> "7"]
      ELSE Absent

\* read_all_servo_params(id): the parameter map of the actuator.
read_all_servo_params(id) == [actuator |-> id]

\* A controller call on this actuator raises.
CtlRaises(id) == ctl[id] = "raises"

\* sorted(s) for a set of numbers.
RECURSIVE Sorted(_)
Sorted(S) ==
    IF S = {} THEN <<>>
    ELSE LET m == CHOOSE x \in S : \A y \in S : x <= y
         IN <<m>> \o Sorted(S \ {m})

\* Lines 150-153 and 118: an empty id list means every registered id.
IdsOf(actuator_ids_req) ==
    IF actuator_ids_req = <<>> THEN Sorted(actuator_ids) ELSE actuator_ids_req

RpcResponse(t, c, items) == [type |-> t, code |-> c, items |-> items]
NoRpc == RpcResponse("none", "none", <<>>)
NoRequest == [op |-> "none", actuator_ids |-> <<>>, commands |-> <<>>]

\* Requests: id lists and command lists of up to MaxReq items.
IdLists == UNION {[1..n -> RequestIds] : n \in 0..MaxReq}
CmdPositions == {5, 7}
Commands == [actuator_id : RequestIds, position : CmdPositions]
CommandLists == UNION {[1..n -> Commands] : n \in 0..MaxReq}

\* The controller's registrations as the service finds them.
InitRpc ==
    /\ actuator_ids \in SUBSET ActuatorIds
    /\ ctl \in [ActuatorIds -> CtlKinds \cup {NotRegistered}]
    /\ \A id \in ActuatorIds : ctl[id] = NotRegistered <=> id \notin actuator_ids
    /\ rpcPc = "idle"
    /\ rpcReq = NoRequest
    /\ rpcResp = NoRpc
    /\ setCalls = <<>>

\* Lines 157-197: the entry of one id.
StateEntry(actuator_id) ==
    IF actuator_id \notin actuator_ids
      THEN [actuator_id |-> actuator_id, position |-> 0, velocity |-> 0,
            online |-> FALSE, faults |-> <<"servo not registered">>]
      ELSE LET torque_enabled == get_torque_enabled(actuator_id)
               state_dict == get_state(actuator_id)
               fault_info == get_faults(actuator_id)
               faults == IF ~fault_info.present THEN <<>>
                         ELSE <<fault_info.last_fault_message,
                                fault_info.total_faults,
                                fault_info.last_fault_time>>
           IN IF ~state_dict.present
                THEN [actuator_id |-> actuator_id, position |-> 0,
                      velocity |-> 0, online |-> FALSE, faults |-> faults]
                ELSE [actuator_id |-> actuator_id,
                      position |-> state_dict.position,
                      velocity |-> state_dict.velocity,
                      online |-> torque_enabled, faults |-> faults]

\* Mutant: an unregistered id is skipped, as ParameterDump does.
RECURSIVE StatesSkipUnregistered(_)
StatesSkipUnregistered(ids) ==
    IF ids = <<>> THEN <<>>
    ELSE IF Head(ids) \notin actuator_ids
      THEN StatesSkipUnregistered(Tail(ids))
    ELSE <<StateEntry(Head(ids))>> \o StatesSkipUnregistered(Tail(ids))

\* Lines 155-197: the loop over the ids.
RECURSIVE States(_)
States(ids) ==
    IF ids = <<>> THEN <<>>
    ELSE <<StateEntry(Head(ids))>> \o States(Tail(ids))

\* The loop raises when a controller call on a registered id does.
StatesRaise(ids) ==
    \E k \in 1..Len(ids) : ids[k] \in actuator_ids /\ CtlRaises(ids[k])

\* GetActuatorsState, lines 146-202: the whole handler.
GetActuatorsState ==
    /\ UNCHANGED NotRpc
    /\ rpcPc = "idle"
    /\ \E req \in IdLists :
         /\ rpcReq' = [op |-> "GetActuatorsState", actuator_ids |-> req,
                       commands |-> <<>>]
         /\ rpcResp' =
              IF StatesRaise(IdsOf(req))
                THEN RpcResponse("GetActuatorsStateResponse", "INTERNAL", <<>>)
                ELSE RpcResponse("GetActuatorsStateResponse", "OK",
                                 States(IdsOf(req)))
    /\ rpcPc' = "done"
    /\ UNCHANGED <<actuator_ids, ctl, setCalls>>

\* Mutant: an unregistered id gets an entry of its own.
RECURSIVE DumpEntriesReportUnregistered(_)
DumpEntriesReportUnregistered(ids) ==
    IF ids = <<>> THEN <<>>
    ELSE LET aid == Head(ids) IN
         IF aid \notin actuator_ids
           THEN <<[actuator_id |-> aid, parameters |-> "not registered"]>>
                    \o DumpEntriesReportUnregistered(Tail(ids))
         ELSE IF CtlRaises(aid)
           THEN DumpEntriesReportUnregistered(Tail(ids))
         ELSE <<[actuator_id |-> aid,
                 parameters |-> read_all_servo_params(aid)]>>
                  \o DumpEntriesReportUnregistered(Tail(ids))

\* Lines 119-136: unregistered ids and ids whose parameter read raises are
\* skipped (`continue`).
RECURSIVE DumpEntries(_)
DumpEntries(ids) ==
    IF ids = <<>> THEN <<>>
    ELSE LET aid == Head(ids) IN
         IF aid \notin actuator_ids THEN DumpEntries(Tail(ids))
         ELSE IF CtlRaises(aid) THEN DumpEntries(Tail(ids))
         ELSE <<[actuator_id |-> aid,
                 parameters |-> read_all_servo_params(aid)]>>
                  \o DumpEntries(Tail(ids))

\* ParameterDump, lines 109-144: the whole handler.
ParameterDump ==
    /\ UNCHANGED NotRpc
    /\ rpcPc = "idle"
    /\ \E req \in IdLists :
         /\ rpcReq' = [op |-> "ParameterDump", actuator_ids |-> req,
                       commands |-> <<>>]
         /\ rpcResp' = RpcResponse("ParameterDumpResponse", "OK",
                                   DumpEntries(IdsOf(req)))
    /\ rpcPc' = "done"
    /\ UNCHANGED <<actuator_ids, ctl, setCalls>>

\* Mutant: the comprehension without its `if`.
RECURSIVE ServoCommandsUnfiltered(_)
ServoCommandsUnfiltered(commands) ==
    IF commands = <<>> THEN <<>>
    ELSE LET prev == ServoCommandsUnfiltered(SubSeq(commands, 1, Len(commands) - 1))
             cmd == commands[Len(commands)]
         IN [x \in DOMAIN prev \cup {cmd.actuator_id} |->
               IF x = cmd.actuator_id THEN cmd.position ELSE prev[x]]

\* Lines 89-94: the dict comprehension; a later command for the same id
\* replaces the earlier one.
RECURSIVE ServoCommands(_)
ServoCommands(commands) ==
    IF commands = <<>> THEN <<>>
    ELSE LET prev == ServoCommands(SubSeq(commands, 1, Len(commands) - 1))
             cmd == commands[Len(commands)]
         IN IF cmd.actuator_id \in actuator_ids
              THEN [x \in DOMAIN prev \cup {cmd.actuator_id} |->
                      IF x = cmd.actuator_id THEN cmd.position ELSE prev[x]]
              ELSE prev

\* CommandActuators, lines 81-107, called with the lock free: the whole
\* handler.  set_positions returns or raises.
CommandActuators ==
    /\ UNCHANGED NotRpc
    /\ rpcPc = "idle"
    /\ \E req \in CommandLists, exc \in {"none", "RuntimeError", "Exception"} :
         /\ rpcReq' = [op |-> "CommandActuators", actuator_ids |-> <<>>,
                       commands |-> req]
         /\ setCalls' = Append(setCalls, [servo_commands |-> ServoCommands(req),
                                          exc |-> exc])
         /\ rpcResp' =
              LET r == ResponseOf("Command", exc, FALSE)
              IN RpcResponse(r.type, r.code, <<>>)
    /\ rpcPc' = "done"
    /\ UNCHANGED <<actuator_ids, ctl>>

\* The response goes out; the service is ready for the next call.
RpcReturn ==
    /\ UNCHANGED NotRpc
    /\ rpcPc = "done"
    /\ rpcPc' = "idle"
    /\ rpcReq' = NoRequest
    /\ rpcResp' = NoRpc
    /\ setCalls' = <<>>
    /\ UNCHANGED <<actuator_ids, ctl>>

NextRpc ==
    \/ GetActuatorsState
    \/ ParameterDump
    \/ CommandActuators
    \/ RpcReturn

\* ---- specifications

\* A single guard state for the specifications of the other subsystems.
IdleGuard ==
    /\ inst = [p \in Insts |-> NewInst]
    /\ pidfile = 0
    /\ nfiles = 0
    /\ files = [i \in Inodes |-> NoFile]

\* A single controller state for the specifications of the other
\* subsystems: nothing registered, no call.
IdleRpc ==
    /\ actuator_ids = {}
    /\ ctl = [id \in ActuatorIds |-> NotRegistered]
    /\ rpcPc = "idle"
    /\ rpcReq = NoRequest
    /\ rpcResp = NoRpc
    /\ setCalls = <<>>

InitForImu == InitImu /\ InitSched /\ InitGw /\ IdleGuard /\ IdleRpc
InitForMerge == InitMerge /\ InitSched /\ InitGw /\ IdleGuard /\ IdleRpc
InitForSched == InitSched /\ InitImu /\ InitGw /\ IdleGuard /\ IdleRpc
InitForGateway == InitGw /\ InitImu /\ InitSched /\ IdleGuard /\ IdleRpc
InitForGuard == InitGuard /\ InitImu /\ InitSched /\ InitGw /\ IdleRpc
InitForRpc == InitRpc /\ InitImu /\ InitSched /\ InitGw /\ IdleGuard

SpecImu == InitForImu /\ [][NextImu]_vars
SpecMerge == InitForMerge /\ [][NextMerge]_vars
SpecSched == InitForSched /\ [][NextSched]_vars
SpecGateway == InitForGateway /\ [][NextGateway]_vars
SpecGuard == InitForGuard /\ [][NextGuard]_vars
SpecRpc == InitForRpc /\ [][NextRpc]_vars

\* The thread that called stop() runs it to its end, and the interpreter
\* keeps scheduling the Aggregator thread, whose get() returns or times out
\* within 0.1 s.
FairStop ==
    /\ WF_vars(StopProc) /\ WF_vars(StopSet) /\ WF_vars(StopJoin)
    /\ \A t \in Ids :
          /\ WF_vars(ReaderCheck(t)) /\ WF_vars(ReaderGet(t))
          /\ WF_vars(ReaderMerge(t)) /\ WF_vars(ReaderTimeout(t))

SpecImuFair == InitForImu /\ [][NextImu]_vars /\ FairStop

\* ---- claims

\* C1: every State Buffer slot holds its zero default or a tuple without a
\* None element, and a slot changes only to the corresponding field of the
\* sample being merged, that field being a tuple whose elements are all
\* non-None.
C1_SlotsValid ==
    \A i \in 1..5 :
        \/ buffer[SlotNames[i]] = BufferDefault[SlotNames[i]]
        \/ \A k \in 1..Len(buffer[SlotNames[i]]) : buffer[SlotNames[i]][k] # None

C1_OnlyValidOverwrites ==
    \A i \in 1..5 :
        buffer'[SlotNames[i]] # buffer[SlotNames[i]] =>
            /\ rdItem # NoData
            /\ Len(rdItem.data) >= i
            /\ rdItem.data[i].kind = "tuple"
            /\ buffer'[SlotNames[i]] = rdItem.data[i].v
            /\ \A k \in 1..Len(buffer'[SlotNames[i]]) :
                   buffer'[SlotNames[i]][k] # None

C1_BufferNeverHoldsNull == [](C1_SlotsValid) /\ [][C1_OnlyValidOverwrites]_vars

\* A slot kept the value of sample 1 while another took the value of
\* sample 2, whose field for the first slot was not valid.
C1_Witness ==
    /\ buffer.accel = <<1, 1, 1>>
    /\ buffer.gyro = <<2, 2, 2>>
    /\ rdLast = 2

\* C2: the Handoff Channel never holds more than one sample, successive pops
\* of the Aggregator return samples in strictly increasing production
\* order, and whatever the channel holds is newer than the last sample
\* popped.
C2_ChannelOrder ==
    /\ Len(ChannelItems) <= 1
    /\ rdLast > 0 => rdPrev < rdLast
    /\ \A k \in 1..Len(ChannelItems) : ChannelItems[k].seq > rdLast

\* Two pops with an evicted sample in between.
C2_Witness == rdPrev > 0 /\ rdLast > rdPrev + 1

\* C3: at most one ConfigureActuator / CommandActuators call is between
\* acquiring and releasing temporal_lock, at most one call is inside the
\* actuator controller, and a call enters the controller only while it holds
\* the lock and no other call holds it or is inside the controller.
C3_Holding(c) == gwCall[c].pc \in {"decode", "apply", "inctrl", "aexit"}

C3_OneHolder ==
    /\ Cardinality({c \in Calls : C3_Holding(c)}) <= 1
    /\ Cardinality(inCtrl) <= 1
    /\ \A c \in Calls : C3_Holding(c) => lockLocked
    /\ \A c \in inCtrl : C3_Holding(c)

C3_EnterStep ==
    \A c \in Calls :
        (c \notin inCtrl /\ c \in inCtrl') =>
            /\ inCtrl = {}
            /\ \A d \in Calls \ {c} : ~C3_Holding(d)

C3_ControllerSerialized == [](C3_OneHolder) /\ [][C3_EnterStep]_vars

\* One call is inside the controller, a second one queues for the lock, and
\* a third has already been through.
C3_Witness ==
    \E c, d, e \in Calls :
        /\ gwCall[c].pc = "inctrl"
        /\ gwCall[d].pc = "waiting"
        /\ gwCall[e].pc = "done" /\ gwCall[e].ctrl = 1

\* C4: at most one live instance at a time has returned from
\* singleton_check.
C4_AtMostOneReturned ==
    Cardinality({p \in Insts : inst[p].pc = "returned"}) <= 1

\* C5 (as stated): an instance that found the pidfile locked when it opened
\* it and whose operator answered anything other than "y" has exited with a
\* non-zero status, holds no lock, and has not created, removed, truncated or
\* written the pidfile nor signalled the other instance.
C5_Aborted(p) ==
    /\ inst[p].pc = "exited" /\ inst[p].exit # 0
    /\ inst[p].did = {}
    /\ \A i \in Inodes : files[i].lock # p

C5_AnswerNotY ==
    \A p \in Insts :
        (inst[p].lockedAtOpen /\ inst[p].answered /\ inst[p].answer # <<"y">>)
            => C5_Aborted(p)

\* C5: an instance that found the pidfile locked when it opened it and whose
\* operator gave an answer whose lowercase form is not "y" has exited with a
\* non-zero status, holds no lock, and has not created, removed, truncated or
\* written the pidfile nor signalled the other instance; the step that takes
\* the answer leaves the path and every file's content as they were.
C5_DeclinedState ==
    \A p \in Insts :
        (inst[p].lockedAtOpen /\ inst[p].answered
            /\ Lower(inst[p].answer) # <<"y">>)
            => C5_Aborted(p)

C5_DeclineStep ==
    \A p \in Insts :
        (inst[p].pc = "prompt" /\ inst'[p].pc = "exited") =>
            /\ pidfile' = pidfile
            /\ \A i \in Inodes : files'[i].content = files[i].content

C5_DeclineAborts == [](C5_DeclinedState) /\ [][C5_DeclineStep]_vars

\* The operator answered "n" while the first instance, returned from the
\* guard, is alive and holds the lock on the file at the path.
C5_Witness ==
    \E p, q \in Insts :
        /\ inst[p].pc = "exited" /\ inst[p].lockedAtOpen
        /\ inst[p].answered /\ inst[p].answer = <<"n">>
        /\ inst[q].pc = "returned"
        /\ pidfile # 0 /\ files[pidfile].lock = q
        /\ files[pidfile].content = Str(Pid(q))

\* C6: a call that found no lock on the pidfile when it opened it and whose
\* first lockf succeeded returns holding the lock, with the file at the path
\* containing exactly the caller's PID.
C6_FreshLockWritesPid ==
    \A p \in Insts :
        (inst[p].pc = "returned" /\ ~inst[p].lockedAtOpen
            /\ inst[p].first = "ok")
            => /\ files[inst[p].fd].lock = p
               /\ inst[p].ret.exists
               /\ inst[p].ret.content = Str(Pid(p))

\* C7: stop() called before any start(), or for at least the second time in a
\* row, never waits and returns without raising, leaving both handles None
\* and no Sampler process and no Aggregator thread alive.
C7_Case == imuHist.last = "stop" /\ (~imuHist.started \/ imuHist.stops >= 2)

C7_StopIdempotent ==
    C7_Case =>
        /\ imuPc # "stop_join"
        /\ ~imuHist.raised
        /\ procAlive = {} /\ thrAlive = {}
        /\ imuPc = "idle" => process = 0 /\ readerThread = 0

\* A second stop() in a row, after a start(), has returned.
C7_Witness ==
    /\ imuPc = "idle" /\ imuHist.last = "stop"
    /\ imuHist.stops >= 2 /\ imuHist.started

\* C8: start() with both executors alive creates nothing and leaves both
\* handles, the stop signal and the State Buffer as they are; an executor that
\* is not alive is created anew (the Aggregator after its stop signal is
\* cleared), and the one that is alive is left alone.
C8_ProcStep ==
    (imuPc = "start_proc" /\ imuPc' = "start_thr") =>
        /\ UNCHANGED <<readerThread, thrAlive, stopReader, buffer>>
        /\ spawned'[2] = spawned[2]
        /\ IF process # 0 /\ process \in procAlive
             THEN UNCHANGED <<process, procAlive, spawned>>
             ELSE /\ spawned'[1] = spawned[1] + 1
                  /\ process' = spawned'[1]
                  /\ procAlive' = procAlive \cup {process'}

C8_ThreadStep ==
    (imuPc = "start_thr" /\ imuPc' = "idle") =>
        /\ UNCHANGED <<process, procAlive, buffer>>
        /\ spawned'[1] = spawned[1]
        /\ IF readerThread # 0 /\ readerThread \in thrAlive
             THEN UNCHANGED <<readerThread, thrAlive, stopReader, spawned>>
             ELSE /\ spawned'[2] = spawned[2] + 1
                  /\ readerThread' = spawned'[2]
                  /\ thrAlive' = thrAlive \cup {readerThread'}
                  /\ stopReader' = FALSE

C8_StartOnlyCreatesMissing == [][C8_ProcStep /\ C8_ThreadStep]_vars

\* A start() made with both executors alive has returned.
C8_Witness == imuPc = "idle" /\ imuHist.last = "start" /\ imuHist.both

\* C9: a tick that begins after its deadline sets the new deadline to that
\* tick's current time plus one period, any other tick to the previous
\* deadline plus one period; so a tick whose own work took less than a period
\* always sleeps, and with a single stall at most one tick in a row ends
\* without sleeping.
C9_DeadlineStep ==
    (schPc = "top" /\ schPc' = "work") =>
        schDeadline' = IF schClock > schDeadline
                         THEN schClock + Period
                         ELSE schDeadline + Period

C9_SleepStep ==
    (schPc = "sleep" /\ schPc' = "top" /\ schWork < Period) =>
        schClock' > schClock

C9_NoBurst == schStalls <= 1 => schNoSleep <= 1

C9_DeadlineResync ==
    [][C9_DeadlineStep /\ C9_SleepStep]_vars /\ [](C9_NoBurst)

\* The tick after a stall that overran its deadline by more than a period:
\* the deadline is one period after now, not a multiple of the period after
\* the old deadline.
C9_Witness ==
    /\ schPc = "work" /\ schStalls = 1
    /\ schOverrun > Period
    /\ schOverrun % Period # 0
    /\ schDeadline = schClock + Period

\* C10: every call acquires temporal_lock at most once and never releases
\* more often than it acquired; a call that is about to respond, or has
\* responded, on any exit path has acquired once and released once; and
\* when no call is in flight the lock is free and nobody waits for it.
C10_ReleasedOnce ==
    \A c \in Calls :
        /\ gwCall[c].rel <= gwCall[c].acq /\ gwCall[c].acq <= 1
        /\ gwCall[c].pc \in {"respond", "done"} =>
               gwCall[c].acq = 1 /\ gwCall[c].rel = 1
        /\ gwCall[c].pc = "done" => gwCall[c].resp # NoResponse

C10_FreeWhenQuiet ==
    (\A c \in Calls : gwCall[c].pc \in {"idle", "done"}) =>
        ~lockLocked /\ lockWaiters = <<>>

C10_LockReleasedOnce == C10_ReleasedOnce /\ C10_FreeWhenQuiet

\* Three calls have completed, one on each exit path, one of them after
\* waiting for the lock.
C10_Witness ==
    /\ \A c \in Calls : gwCall[c].pc \in {"idle", "done"}
    /\ \E c, d, e \in Calls :
         /\ gwCall[c].pc = "done" /\ gwCall[c].resp.code = "OK"
         /\ gwCall[d].pc = "done" /\ gwCall[d].resp.code = "RESOURCE_EXHAUSTED"
         /\ gwCall[e].pc = "done" /\ gwCall[e].resp.code = "INTERNAL"
         /\ gwCall[e].ctrl = 0

\* C11: a call during which the controller raised RuntimeError ends with
\* RESOURCE_EXHAUSTED and success false, having invoked the controller
\* exactly once; a call that left on any other exception ends with INTERNAL
\* and success false; no call invokes the controller more than once.
C11_Outcomes ==
    \A c \in Calls :
        /\ gwCall[c].ctrl <= 1
        /\ (gwCall[c].pc = "done" /\ gwCall[c].exc = "RuntimeError") =>
               /\ gwCall[c].resp.code = "RESOURCE_EXHAUSTED"
               /\ ~gwCall[c].resp.success
               /\ gwCall[c].ctrl = 1
        /\ (gwCall[c].pc = "done" /\ gwCall[c].exc = "Exception") =>
               /\ gwCall[c].resp.code = "INTERNAL"
               /\ ~gwCall[c].resp.success
        /\ (gwCall[c].pc = "done" /\ gwCall[c].exc = "none") =>
               gwCall[c].resp.code = "OK"

\* A ConfigureActuator and a CommandActuators call have both ended on the
\* controller's RuntimeError, and a third call on another exception raised
\* by the controller.
C11_Witness ==
    \E c, d, e \in Calls :
        /\ gwCall[c].pc = "done" /\ gwCall[c].kind = "Configure"
        /\ gwCall[c].exc = "RuntimeError"
        /\ gwCall[d].pc = "done" /\ gwCall[d].kind = "Command"
        /\ gwCall[d].exc = "RuntimeError"
        /\ gwCall[e].pc = "done" /\ gwCall[e].exc = "Exception"
        /\ gwCall[e].ctrl = 1

\* C12: every completed call has returned a response of its handler's own
\* declared type: ActionResponse for ConfigureActuator,
\* CommandActuatorsResponse for CommandActuators.
C12_DeclaredType ==
    \A c \in Calls :
        gwCall[c].pc = "done" =>
            gwCall[c].resp.type =
                IF gwCall[c].kind = "Configure"
                  THEN "ActionResponse" ELSE "CommandActuatorsResponse"

\* C13: a completed GetActuatorsState call fails (INTERNAL) only when a
\* controller call on a registered requested id raised, never because of an
\* unregistered id; otherwise, for a non-empty id list the response has
\* exactly one entry per requested id, in request order, an unregistered id
\* giving online false, position 0, velocity 0 and the "not registered"
\* fault, a registered id with state giving the controller's position and
\* velocity; for an empty id list it has one entry per registered id.
C13_Listed ==
    IF rpcReq.actuator_ids = <<>> THEN Sorted(actuator_ids)
    ELSE rpcReq.actuator_ids

C13_Entry(e, id) ==
    /\ e.actuator_id = id
    /\ id \notin actuator_ids =>
           /\ ~e.online /\ e.position = 0 /\ e.velocity = 0
           /\ e.faults = <<"servo not registered">>
    /\ (id \in actuator_ids /\ ctl[id] \in {"on", "off"}) =>
           /\ e.position = Position(id) /\ e.velocity = Velocity(id)
           /\ e.online = (ctl[id] = "on")

C14_EntryPerRequestedId ==
    (rpcPc = "done" /\ rpcReq.op = "ParameterDump") =>
        /\ rpcResp.code = "OK"
        /\ \A k \in 1..Len(rpcReq.actuator_ids) :
               rpcReq.actuator_ids[k] \notin actuator_ids =>
                   \E j \in 1..Len(rpcResp.items) :
                       rpcResp.items[j].actuator_id = rpcReq.actuator_ids[k]

\* C14: a completed ParameterDump call has not failed, and its response
\* holds, in request order, one entry with the controller's parameter map
\* for each requested id that is registered and whose parameters could be
\* read; an unregistered requested id has no entry.
C14_Listed ==
    IF rpcReq.actuator_ids = <<>> THEN Sorted(actuator_ids)
    ELSE rpcReq.actuator_ids

C14_Readable(id) == id \in actuator_ids /\ ctl[id] # "raises"

C14_UnregisteredOmitted ==
    (rpcPc = "done" /\ rpcReq.op = "ParameterDump") =>
        /\ rpcResp.type = "ParameterDumpResponse"
        /\ rpcResp.code = "OK"
        /\ [k \in 1..Len(rpcResp.items) |-> rpcResp.items[k].actuator_id]
               = SelectSeq(C14_Listed, C14_Readable)
        /\ \A k \in 1..Len(rpcResp.items) :
               /\ rpcResp.items[k].actuator_id \in actuator_ids
               /\ rpcResp.items[k].parameters =
                      [actuator |-> rpcResp.items[k].actuator_id]

\* The parameters of a registered id and of the id that is never registered
\* were asked for in one call; the response has the one entry.
C14_Witness ==
    /\ rpcPc = "done" /\ rpcReq.op = "ParameterDump"
    /\ \E id \in actuator_ids :
         /\ ctl[id] # "raises"
         /\ rpcReq.actuator_ids = <<NumIds + 1, id>>
         /\ Len(rpcResp.items) = 1
         /\ rpcResp.items[1].actuator_id = id

\* C15: a completed CommandActuators call has called set_positions exactly
\* once, with a map whose keys are the requested ids that are registered and
\* whose value for each key is the position of the last command naming it;
\* when set_positions returned, the call succeeded, unknown ids or not.
C15_FilteredMap ==
    (rpcPc = "done" /\ rpcReq.op = "CommandActuators") =>
        /\ Len(setCalls) = 1
        /\ LET m == setCalls[1].servo_commands
               cmds == rpcReq.commands
           IN /\ DOMAIN m = {cmds[k].actuator_id : k \in 1..Len(cmds)}
                                \cap actuator_ids
              /\ \A id \in DOMAIN m :
                     \E k \in 1..Len(cmds) :
                         /\ cmds[k].actuator_id = id
                         /\ m[id] = cmds[k].position
                         /\ \A j \in (k + 1)..Len(cmds) :
                                cmds[j].actuator_id # id
        /\ setCalls[1].exc = "none" =>
               /\ rpcResp.code = "OK"
               /\ rpcResp.type = "CommandActuatorsResponse"

\* A registered id was commanded twice with different positions, with an
\* unknown id in between, and the call succeeded.
C15_Witness ==
    /\ rpcPc = "done" /\ rpcReq.op = "CommandActuators"
    /\ rpcResp.code = "OK"
    /\ Len(rpcReq.commands) = 3
    /\ rpcReq.commands[1].actuator_id \in actuator_ids
    /\ rpcReq.commands[2].actuator_id \notin actuator_ids
    /\ rpcReq.commands[3].actuator_id = rpcReq.commands[1].actuator_id
    /\ rpcReq.commands[3].position # rpcReq.commands[1].position
    /\ Len(setCalls) = 1
    /\ DOMAIN setCalls[1].servo_commands = {rpcReq.commands[1].actuator_id}

\* Every id of the request was unknown: set_positions was called with the
\* empty map.
C15_WitnessAllUnknown ==
    /\ rpcPc = "done" /\ rpcReq.op = "CommandActuators"
    /\ actuator_ids # {}
    /\ Len(rpcReq.commands) = 2
    /\ \A k \in 1..2 : rpcReq.commands[k].actuator_id \notin actuator_ids
    /\ Len(setCalls) = 1 /\ DOMAIN setCalls[1].servo_commands = {}

\* C16: a tick of the Sampler whose sensor read raises leaves the Handoff
\* Channel and its free slots as they were and the Sampler alive, holding no
\* sample and on its way to the sleep that ends the tick; the deadline was
\* advanced at the top of that tick, and the tick after the sleep advances it
\* again.
C16_FailedRead(p) ==
    /\ smPc[p] = "read" /\ smPc'[p] # "read"
    /\ prodSeq' # prodSeq
    /\ smPc'[p] # "full"

C16_FailedReadStep ==
    \A p \in Ids :
        /\ C16_FailedRead(p) =>
              /\ ChannelItems' = ChannelItems
              /\ qSem' = qSem
              /\ p \in procAlive'
              /\ smPc'[p] = "sleep"
              /\ smData'[p] = NoData
              /\ smTicks'[p] = smTicks[p]
        /\ smPc[p] = "sleep" /\ smPc'[p] \notin {"sleep", "dead"} =>
              smPc'[p] = "top"
        /\ smPc[p] = "top" /\ smPc'[p] \notin {"top", "dead"} =>
              /\ smPc'[p] = "read"
              /\ smTicks'[p] = smTicks[p] + 1

C16_Ticking ==
    \A p \in Ids :
        smPc[p] \in {"read", "full", "get", "put", "sleep"} => smTicks[p] >= 1

C16_ReadFailureSkipsTick == [](C16_Ticking) /\ [][C16_FailedReadStep]_vars

\* Sampler 1 is in its third tick after two reads that both failed.
C16_Witness ==
    /\ 1 \in procAlive /\ smPc[1] = "read" /\ smData[1] = NoData
    /\ smTicks[1] = 3 /\ smTicks[2] = 0 /\ prodSeq = 2
    /\ ChannelItems = <<>> /\ qSem = QueueMaxsize
    /\ rdLast = 0 /\ rdItem = NoData

\* C17: an Aggregator thread ends only at its loop condition with the stop
\* signal set; a pop that times out changes nothing and returns to the loop
\* condition; the handling of a popped sample, whether it merges or raises,
\* leaves the thread alive at the loop condition without the buffer lock;
\* and a popped sample whose five fields are all valid is stored in all
\* five slots, whatever happened to the samples before it.
C17_WellFormed(d) ==
    Len(d) = 5 /\ \A i \in 1..5 : d[i].kind = "tuple" /\ FieldOk(d[i])

C17_LoopStep ==
    \A t \in Ids :
        /\ t \in thrAlive /\ t \notin thrAlive' =>
              stopReader /\ rdPc[t] = "check"
        /\ rdPc[t] = "get" /\ rdPc'[t] = "check" =>
              /\ t \in thrAlive'
              /\ buffer' = buffer /\ bufLock' = bufLock /\ rdErr' = rdErr
        /\ rdPc[t] = "merge" /\ rdPc'[t] # "merge" =>
              /\ t \in thrAlive' /\ rdPc'[t] = "check"
              /\ bufLock' # t
              /\ C17_WellFormed(rdItem.data) =>
                    \A i \in 1..5 : buffer'[SlotNames[i]] = rdItem.data[i].v

C17_LockFree ==
    \A t \in Ids : rdPc[t] \in {"check", "get", "merge"} => bufLock # t

C17_LoopSurvives == [](C17_LockFree) /\ [][C17_LoopStep]_vars

\* The first sample raised in the merge, the second was stored whole, and
\* the thread is alive with no stop requested.
C17_Witness ==
    /\ rdErr = 1 /\ rdPrev = 1 /\ rdLast = 2
    /\ \A i \in 1..5 : buffer[SlotNames[i]] = ValidField(2, i).v
    /\ 1 \in thrAlive /\ rdPc[1] = "check" /\ ~stopReader
    /\ bufLock = 0

\* C18: each getter call returns slots read from one buffer state: the
\* slots get_values has read so far in a call were all read from the same
\* buffer, and while the call is between its reads the caller holds the
\* buffer lock.
C18_InGetValues == clPc \in {"gyro", "mag"}

C18_PerCallSnapshot ==
    /\ \A i, j \in 1..3 :
          clSnap[i].read /\ clSnap[j].read => clSnap[i].at = clSnap[j].at
    /\ C18_InGetValues => bufLock = ClientThread

\* The Aggregator holds a well-formed sample and waits for the lock while
\* get_values is between two of its reads.
C18_Witness ==
    /\ C18_InGetValues
    /\ \E t \in Ids : t \in thrAlive /\ rdPc[t] = "merge"
                        /\ Len(rdItem.data) = 5

\* C18 as stated: when the reader has called the three getters, the five
\* slots it holds were read from one buffer state.
C18_FiveSlotSnapshot ==
    clPc = "done" =>
        \A i, j \in 1..5 : clSnap[i].at = clSnap[j].at

\* C19: when a Sampler has finished the push of a sample it read (it is at
\* the sleep that ends the tick), that sample is in the Handoff Channel,
\* unless the Aggregator has taken it already.
C19_Pushed(p) ==
    p \in procAlive /\ smPc[p] = "sleep" /\ smData[p] # NoData

C19_NewestInChannel ==
    \A p \in Ids :
        C19_Pushed(p) =>
            \/ \E k \in 1..Len(ChannelItems) : ChannelItems[k] = smData[p]
            \/ rdItem = smData[p]
            \/ smData[p].seq <= rdLast

\* C20: an instance whose first lockf failed, which found in the file no PID
\* of a live process and removed the file, finishes the call by returning,
\* holding the lock, with the file at the path containing exactly its PID.
C20_TookRemoveBranch(p) ==
    /\ inst[p].first = "busy" /\ ~inst[p].answered
    /\ "remove" \in inst[p].did
    /\ inst[p].pc \in {"returned", "crashed", "exited"}

C20_StaleRecovered ==
    \A p \in Insts :
        C20_TookRemoveBranch(p) =>
            /\ inst[p].pc = "returned"
            /\ files[inst[p].fd].lock = p
            /\ inst[p].ret.exists
            /\ inst[p].ret.content = Str(Pid(p))

\* C21: an instance that sent SIGTERM polls at most PollMax times; if it
\* gives up it exits with a non-zero status having neither locked nor
\* written; and it gets to truncating and writing the pidfile only when the
\* lockf it makes after the polls has succeeded.
C21_Signalled(p) == "signal" \in inst[p].did

C21_TakeoverProtocol ==
    \A p \in Insts :
        C21_Signalled(p) =>
            /\ inst[p].polls <= PollMax
            /\ inst[p].pc = "exited" =>
                  /\ inst[p].exit # 0
                  /\ inst[p].did \cap {"lock", "truncate", "write"} = {}
            /\ inst[p].pc \in {"truncate", "write", "returned"} =>
                  inst[p].second = "ok"

\* C22: when a start() that follows a completed stop() has returned, a new
\* Aggregator thread is alive with the stop signal clear, a new Sampler was
\* created (alive unless it has died on its own since), and the Handoff
\* Channel can take the next push: if it holds no sample, its slot is free.
C22_Restarted ==
    imuPc = "idle" /\ imuHist.last = "start" /\ readerThread > 1

C22_RunningAgain ==
    C22_Restarted =>
        /\ readerThread \in thrAlive /\ ~stopReader
        /\ process > 1
        /\ process \in procAlive \/ smPc[process] = "dead"
        /\ ChannelItems = <<>> => qSem > 0

\* C23: every stop() call returns; its thread part begins only when no
\* Sampler is alive and the process handle is cleared; it returns from the
\* join only with the Aggregator thread gone and the thread handle cleared;
\* and once the stop signal is set the Aggregator leaves its loop at its next
\* test of the condition, before which it makes at most one pop and one
\* merge.
C23_SamplerFirst ==
    imuPc \in {"stop_thr", "stop_join"} => process = 0 /\ procAlive = {}

C23_StopStep ==
    /\ imuPc = "stop_join" /\ imuPc' = "idle" =>
          /\ stopReader
          /\ procAlive' = {} /\ thrAlive' = {}
          /\ process' = 0 /\ readerThread' = 0
    /\ \A t \in Ids :
          /\ stopReader /\ rdPc[t] = "check" /\ rdPc'[t] # "check" =>
                rdPc'[t] = "done" /\ t \notin thrAlive'
          /\ rdPc[t] = "get" /\ rdPc'[t] # "get" =>
                rdPc'[t] \in {"merge", "check"}
          /\ rdPc[t] = "merge" /\ rdPc'[t] # "merge" => rdPc'[t] = "check"

C23_StopTerminates ==
    /\ [](C23_SamplerFirst)
    /\ [][C23_StopStep]_vars
    /\ (imuPc = "stop_proc" ~> imuPc = "idle")

\* stop() has terminated the Sampler and set the stop signal while the
\* Aggregator holds a sample it popped and has not merged yet.
C23_Witness ==
    /\ imuPc = "stop_join" /\ stopReader
    /\ readerThread \in thrAlive /\ rdPc[readerThread] = "merge"

\* C24: at every moment at most one Sampler process and at most one
\* Aggregator thread are alive, and an alive one is the one the manager's
\* handle names.
C24_OneOfEach ==
    /\ Cardinality(procAlive) <= 1
    /\ Cardinality(thrAlive) <= 1
    /\ \A p \in procAlive : p = process
    /\ \A t \in thrAlive : t = readerThread

\* A start() made after the first Sampler had died on its own, with no
\* stop() in between, has returned: the second Sampler and the first
\* Aggregator are alive.
C24_Witness ==
    /\ imuPc = "idle" /\ imuHist.last = "start"
    /\ smPc[1] = "dead" /\ procAlive = {2} /\ thrAlive = {1}

====
